---- MODULE Spec2Model ----
(***************************************************************************)
(* A model of src/hello.py: parse_test_line, the line parser, and main,    *)
(* the fetch / select / resolve / filter / summarise / report pipeline.    *)
(*                                                                         *)
(* A Python string is a sequence of one-character strings, so that the     *)
(* literal searches and the regular expressions of the source work on      *)
(* characters.  A Python value that may be None is None (the empty tuple)  *)
(* or Some(v) (the one-element tuple holding v).                           *)
(***************************************************************************)
EXTENDS Integers, Sequences, FiniteSets, TLC

VARIABLES line, rec, ppc,
          pc, fault, body, now, parsed_data, df, df_recent, test_summary,
          out, files

pvars == <<line, rec, ppc>>
mvars == <<pc, fault, body, now, parsed_data, df, df_recent, test_summary,
           out, files>>
vars == <<line, rec, ppc, pc, fault, body, now, parsed_data, df, df_recent,
          test_summary, out, files>>

None == <<>>
Some(v) == <<v>>
Val(o) == o[1]

Min(S) == CHOOSE x \in S : \A y \in S : x <= y

(***************************************************************************)
(* The literals of the source, as character sequences.                     *)
(***************************************************************************)
FAILED == <<"F", "A", "I", "L", "E", "D">>
FLAKED == <<"F", "L", "A", "K", "E", "D">>
SPAN == <<"s", "p", "a", "n">>
ATAG == <<"a">>
HREF_EQ == <<"h", "r", "e", "f", "=", "\"">>
\* "</a></span>)", the text line 30 searches for
CLOSE_MARKER == <<"<", "/", "a", ">", "<", "/", "s", "p", "a", "n", ">", ")">>
\* "</a></span>):", the text whose length line 30 adds
CLOSE_MARKER_COLON == CLOSE_MARKER \o <<":">>
CODE_OPEN == <<"(", "c", "o", "d", "e", ":", " ">>
TARGET_OPEN == <<"(", "t", "a", "r", "g", "e", "t", ":", " ">>
TARGET_NEXT == TARGET_OPEN \o <<"n", "e", "x", "t", ")">>
\* ^(\d{2}-\d{2} \d{2}:\d{2}:\d{2}): with d standing for \d
DATETIME_SHAPE == <<"d", "d", "-", "d", "d", " ", "d", "d", ":", "d", "d", ":",
                    "d", "d", ":">>

Digits == {"0", "1", "2", "3", "4", "5", "6", "7", "8", "9"}
IsDigit(c) == c \in Digits
IsSpace(c) == c \in {" ", "\t", "\n", "\r"}
DigitVal(c) ==
  CASE c = "0" -> 0 [] c = "1" -> 1 [] c = "2" -> 2 [] c = "3" -> 3
    [] c = "4" -> 4 [] c = "5" -> 5 [] c = "6" -> 6 [] c = "7" -> 7
    [] c = "8" -> 8 [] c = "9" -> 9

(***************************************************************************)
(* str operations.  Positions are 1-based except where Python's 0-based    *)
(* result is computed with (find, SliceFrom, SliceTo).                     *)
(***************************************************************************)
\* pat occurs in s at 1-based position i
OccursAt(s, pat, i) ==
  /\ i >= 1
  /\ i + Len(pat) - 1 <= Len(s)
  /\ \A k \in 1..Len(pat) : s[i + k - 1] = pat[k]

\* str.find: the lowest 0-based index of pat in s, -1 when there is none
find(s, pat) ==
  LET I == {i \in 1..Len(s) : OccursAt(s, pat, i)}
  IN IF I = {} THEN -1 ELSE Min(I) - 1

\* s[n:] for a 0-based n >= 0
SliceFrom(s, n) == IF n >= Len(s) THEN <<>> ELSE SubSeq(s, n + 1, Len(s))

\* s[:n] for a 0-based n >= 0
SliceTo(s, n) == IF n <= 0 THEN <<>> ELSE SubSeq(s, 1, IF n > Len(s) THEN Len(s) ELSE n)

\* str.endswith
endswith(s, suffix) == OccursAt(s, suffix, Len(s) - Len(suffix) + 1)

RECURSIVE lstrip(_)
lstrip(s) == IF s # <<>> /\ IsSpace(s[1]) THEN lstrip(Tail(s)) ELSE s

RECURSIVE rstrip(_)
rstrip(s) ==
  IF s # <<>> /\ IsSpace(s[Len(s)]) THEN rstrip(SubSeq(s, 1, Len(s) - 1)) ELSE s

\* str.strip
strip(s) == rstrip(lstrip(s))

\* int() of a string of decimal digits
RECURSIVE int(_)
int(s) == IF s = <<>> THEN 0 ELSE 10 * int(SubSeq(s, 1, Len(s) - 1)) + DigitVal(s[Len(s)])

(***************************************************************************)
(* The regular expressions.  A matcher gives the length of the match that  *)
(* starts at 1-based position i, 0 when there is none (no pattern here     *)
(* matches the empty string).                                              *)
(***************************************************************************)
\* the number of consecutive \d characters from position i on
RECURSIVE DigitsRun(_, _)
DigitsRun(s, i) ==
  IF i <= Len(s) /\ IsDigit(s[i]) THEN 1 + DigitsRun(s, i + 1) ELSE 0

\* the number of consecutive [^)] characters from position i on
RECURSIVE NonParenRun(_, _)
NonParenRun(s, i) ==
  IF i <= Len(s) /\ s[i] # ")" THEN 1 + NonParenRun(s, i + 1) ELSE 0

\* ^(\d{2}-\d{2} \d{2}:\d{2}:\d{2}): at the start of the line
MatchDatetime(s) ==
  /\ Len(s) >= Len(DATETIME_SHAPE)
  /\ \A k \in 1..Len(DATETIME_SHAPE) :
       IF DATETIME_SHAPE[k] = "d" THEN IsDigit(s[k]) ELSE s[k] = DATETIME_SHAPE[k]

\* \((\d+s)\)
MatchDuration(s, i) ==
  LET n == DigitsRun(s, i + 1)
  IN IF /\ i <= Len(s) /\ s[i] = "("
        /\ n >= 1
        /\ i + n + 2 <= Len(s)
        /\ s[i + n + 1] = "s"
        /\ s[i + n + 2] = ")"
     THEN n + 3 ELSE 0

\* \(code: (\d+)\)
MatchCode(s, i) ==
  LET g == i + Len(CODE_OPEN)
      n == DigitsRun(s, g)
  IN IF /\ OccursAt(s, CODE_OPEN, i)
        /\ n >= 1
        /\ g + n <= Len(s)
        /\ s[g + n] = ")"
     THEN Len(CODE_OPEN) + n + 1 ELSE 0

\* \(target: ([^)]+)\)
MatchTarget(s, i) ==
  LET g == i + Len(TARGET_OPEN)
      n == NonParenRun(s, g)
  IN IF /\ OccursAt(s, TARGET_OPEN, i)
        /\ n >= 1
        /\ g + n <= Len(s)
     THEN Len(TARGET_OPEN) + n + 1 ELSE 0

\* re.search: the 1-based start of the leftmost match, 0 when there is none
re_search(s, Match(_, _)) ==
  LET I == {i \in 1..Len(s) : Match(s, i) > 0}
  IN IF I = {} THEN 0 ELSE Min(I)

\* re.compile(r"(FAILED|FLAKED)").search(s)
StatusSearch(s) == find(s, FAILED) >= 0 \/ find(s, FLAKED) >= 0

(***************************************************************************)
(* BeautifulSoup(line, "html.parser"): the tag soup of the line.           *)
(* html.parser reports start tags, end tags and the text between them;     *)
(* the tree builder keeps a stack of open tags.  A node is a text node or  *)
(* a tag with its children.                                                *)
(***************************************************************************)
TextNode(s) == [k |-> "text", s |-> s, name |-> <<>>, href |-> None, kids |-> <<>>]
TagNode(name, href) == [k |-> "tag", s |-> <<>>, name |-> name, href |-> href, kids |-> <<>>]

\* the 1-based position of the first c at or after i, Len(s) + 1 when there is none
RECURSIVE IndexFrom(_, _, _)
IndexFrom(s, c, i) ==
  IF i > Len(s) THEN Len(s) + 1
  ELSE IF s[i] = c THEN i ELSE IndexFrom(s, c, i + 1)

\* the tag name: the text of a tag up to its first space
TagName(inner) == SubSeq(inner, 1, IndexFrom(inner, " ", 1) - 1)

\* attrs.get("href") of a start tag: the text between href=" and the next quote
TagHref(inner) ==
  LET at == find(inner, <<" ">> \o HREF_EQ)
      from == at + Len(HREF_EQ) + 2
      to == IndexFrom(inner, "\"", from)
  IN IF at < 0 \/ to > Len(inner) THEN None ELSE Some(SubSeq(inner, from, to - 1))

\* the parser's events from position i on: start tags, end tags, text
\* (in the lines modelled a "<" always opens a whole tag)
RECURSIVE Events(_, _)
Events(s, i) ==
  IF i > Len(s) THEN <<>>
  ELSE IF s[i] = "<" /\ IndexFrom(s, ">", i) <= Len(s)
  THEN LET j == IndexFrom(s, ">", i)
           inner == SubSeq(s, i + 1, j - 1)
           ev == IF inner # <<>> /\ inner[1] = "/"
                 THEN [e |-> "end", node |-> TagNode(TagName(Tail(inner)), None)]
                 ELSE [e |-> "start", node |-> TagNode(TagName(inner), TagHref(inner))]
       IN <<ev>> \o Events(s, j + 1)
  ELSE LET j == IF s[i] = "<" THEN Len(s) + 1 ELSE IndexFrom(s, "<", i)
       IN <<[e |-> "data", node |-> TextNode(SubSeq(s, i, j - 1))]>> \o Events(s, j)

\* the innermost open tag becomes a child of the one below it
PopTag(stack) ==
  LET n == Len(stack)
  IN SubSeq(stack, 1, n - 2)
       \o <<[stack[n - 1] EXCEPT !.kids = Append(@, stack[n])]>>

\* close the open tags from the innermost down to stack position k
RECURSIVE PopTo(_, _)
PopTo(stack, k) == IF Len(stack) >= k /\ Len(stack) >= 2 THEN PopTo(PopTag(stack), k) ELSE stack

\* _popToTag: an end tag closes the most recent open tag of its name and all
\* tags opened inside it; an end tag with no such open tag is ignored
EndTag(stack, name) ==
  LET K == {k \in 2..Len(stack) : stack[k].name = name}
  IN IF K = {} THEN stack ELSE PopTo(stack, CHOOSE k \in K : \A m \in K : m <= k)

RECURSIVE BuildTree(_, _, _)
BuildTree(evs, i, stack) ==
  IF i > Len(evs) THEN PopTo(stack, 2)[1]
  ELSE LET ev == evs[i]
           n == Len(stack)
       IN CASE ev.e = "data" ->
                 BuildTree(evs, i + 1,
                           [stack EXCEPT ![n].kids = Append(@, ev.node)])
            [] ev.e = "start" -> BuildTree(evs, i + 1, Append(stack, ev.node))
            [] ev.e = "end" -> BuildTree(evs, i + 1, EndTag(stack, ev.node.name))

BeautifulSoup(s) ==
  BuildTree(Events(s, 1), 1, <<TagNode(<<"[", "d", "o", "c", "]">>, None)>>)

\* Tag.string: the single string inside a tag, None for any other content
RECURSIVE String(_)
String(node) ==
  IF node.k = "text" THEN Some(node.s)
  ELSE IF Len(node.kids) = 1 THEN String(node.kids[1]) ELSE None

RECURSIVE ConcatText(_, _)
RECURSIVE Text(_)
\* Tag.text: all the strings inside a tag, concatenated
Text(node) == IF node.k = "text" THEN node.s ELSE ConcatText(node.kids, 1)
ConcatText(kids, i) == IF i > Len(kids) THEN <<>> ELSE Text(kids[i]) \o ConcatText(kids, i + 1)

RECURSIVE DescendantsOfKids(_, _)
RECURSIVE Descendants(_)
\* the nodes below a tag, in document order
Descendants(node) == DescendantsOfKids(node.kids, 1)
DescendantsOfKids(kids, i) ==
  IF i > Len(kids) THEN <<>>
  ELSE <<kids[i]>> \o Descendants(kids[i]) \o DescendantsOfKids(kids, i + 1)

\* the first element of a sequence that satisfies Test, as an option
FirstWhere(seq, Test(_)) ==
  LET I == {i \in 1..Len(seq) : Test(seq[i])}
  IN IF I = {} THEN None ELSE Some(seq[Min(I)])

\* soup.find("span", string=re.compile(r"(FAILED|FLAKED)")): the first span
\* whose .string is a string the pattern is found in
IsStatusSpan(node) ==
  /\ node.k = "tag"
  /\ node.name = SPAN
  /\ String(node) # None
  /\ StatusSearch(Val(String(node)))

FindStatusSpan(soup) == FirstWhere(Descendants(soup), IsStatusSpan)

IsLinkTag(node) == node.k = "tag" /\ node.name = ATAG

\* soup.find("a")
FindLinkTag(soup) == FirstWhere(Descendants(soup), IsLinkTag)

(***************************************************************************)
(* parse_test_line, lines 9-60                                             *)
(***************************************************************************)
\* lines 15-16
ExtractDatetime(l) ==
  IF MatchDatetime(l) THEN Some(SubSeq(l, 1, Len(DATETIME_SHAPE) - 1)) ELSE None

\* lines 19-20
ExtractStatus(soup) ==
  LET status_span == FindStatusSpan(soup)
  IN IF status_span # None THEN Some(Text(Val(status_span))) ELSE None

\* lines 23-26
ExtractLink(soup) ==
  LET link_tag == FindLinkTag(soup)
  IN IF link_tag # None THEN Val(link_tag).href ELSE None

\* line 30
LinkEnd(l) == find(l, CLOSE_MARKER) + Len(CLOSE_MARKER_COLON)

\* lines 30-33
RestOfLine(l) ==
  LET link_end == LinkEnd(l)
  IN IF link_end > Len(CLOSE_MARKER_COLON) - 1 THEN strip(SliceFrom(l, link_end)) ELSE <<>>

\* a variant of lines 36-42 in which the command does not wait for a duration
ExtractTestCommand_ungated(rest_of_line) ==
  LET start == re_search(rest_of_line, MatchDuration)
  IN IF start > 0 THEN Some(strip(SliceTo(rest_of_line, start - 1)))
     ELSE IF rest_of_line # <<>> THEN Some(rest_of_line) ELSE None

\* lines 36-42, the command
ExtractTestCommand(rest_of_line) ==
  LET start == re_search(rest_of_line, MatchDuration)
  IN IF start > 0 THEN Some(strip(SliceTo(rest_of_line, start - 1))) ELSE None

\* lines 36-42, the duration
ExtractDuration(rest_of_line) ==
  LET start == re_search(rest_of_line, MatchDuration)
  IN IF start > 0
     THEN Some(SubSeq(rest_of_line, start + 1,
                      start + MatchDuration(rest_of_line, start) - 2))
     ELSE None

\* lines 45-46
ExtractExitCode(rest_of_line) ==
  LET start == re_search(rest_of_line, MatchCode)
  IN IF start > 0
     THEN Some(int(SubSeq(rest_of_line, start + Len(CODE_OPEN),
                          start + MatchCode(rest_of_line, start) - 2)))
     ELSE None

\* lines 49-50
ExtractTarget(rest_of_line) ==
  LET start == re_search(rest_of_line, MatchTarget)
  IN IF start > 0
     THEN Some(SubSeq(rest_of_line, start + Len(TARGET_OPEN),
                      start + MatchTarget(rest_of_line, start) - 2))
     ELSE None

parse_test_line(l) ==
  LET soup == BeautifulSoup(l)
      rest_of_line == RestOfLine(l)
  IN [date_time |-> ExtractDatetime(l),
      status |-> ExtractStatus(soup),
      link |-> ExtractLink(soup),
      test_command |-> ExtractTestCommand(rest_of_line),
      duration |-> ExtractDuration(rest_of_line),
      exit_code |-> ExtractExitCode(rest_of_line),
      target |-> ExtractTarget(rest_of_line)]

(***************************************************************************)
(* Input lines: concatenations of the fragments a dashboard line is made   *)
(* of.                                                                     *)
(***************************************************************************)
MaxTokens == 4

T_SPAN_OPEN == <<"<", "s", "p", "a", "n", ">">>
T_SPAN_CLOSE == <<"<", "/", "s", "p", "a", "n", ">">>
T_A_OPEN == <<"<", "a", " ", "h", "r", "e", "f", "=", "\"", "u", "\"", ">">>
T_X == <<"X">>
T_SP_X == <<" ", "X">>
T_COLON == <<":">>
T_DURATION == <<" ", "(", "3", "s", ")">>
T_CODE == <<" ">> \o CODE_OPEN \o <<"1", ")">>
T_TARGET_NEXT == <<" ">> \o TARGET_NEXT

\* the fragments the status and link rules read
MarkupTokens == {T_SPAN_OPEN, T_SPAN_CLOSE, T_A_OPEN, FAILED, FLAKED, T_X}

\* the fragments the remainder rules read
RemainderTokens == {CLOSE_MARKER, T_COLON, T_SP_X, T_DURATION, T_CODE, T_TARGET_NEXT}

\* the concatenations of at most n fragments of A
RECURSIVE LinesOf(_, _)
LinesOf(A, n) ==
  IF n = 0 THEN {<<>>}
  ELSE LET P == LinesOf(A, n - 1) IN P \cup {p \o t : p \in P, t \in A}

ParseLines == LinesOf(MarkupTokens, MaxTokens) \cup LinesOf(RemainderTokens, MaxTokens)

NoRecord ==
  [date_time |-> None, status |-> None, link |-> None, test_command |-> None,
   duration |-> None, exit_code |-> None, target |-> None]

MainIdle ==
  /\ pc = "start"
  /\ fault = "none"
  /\ body = <<>>
  /\ now = 0
  /\ parsed_data = <<>>
  /\ df = <<>>
  /\ df_recent = <<>>
  /\ test_summary = <<>>
  /\ out = <<>>
  /\ files = {}

(***************************************************************************)
(* SpecParse: one call of parse_test_line on each line of ParseLines.      *)
(***************************************************************************)
InitParse ==
  /\ line \in ParseLines
  /\ rec = NoRecord
  /\ ppc = "call"
  /\ MainIdle

ParseLine ==
  /\ ppc = "call"
  /\ rec' = parse_test_line(line)
  /\ ppc' = "return"
  /\ UNCHANGED <<line, pc, fault, body, now, parsed_data, df, df_recent,
                 test_summary, out, files>>

NextParse == ParseLine

SpecParse == InitParse /\ [][NextParse]_vars

(***************************************************************************)
(* main, lines 63-162.  A DataFrame is the sequence of its rows.  A        *)
(* datetime is the number of seconds since the start of the run's year     *)
(* (negative before it); every resolved timestamp lies in that year.       *)
(***************************************************************************)
MaxLines == 3

WindowHours == 48
HeadRows == 10

IsLeap(y) == (y % 4 = 0 /\ y % 100 # 0) \/ y % 400 = 0

DaysIn(mo, y) ==
  CASE mo \in {1, 3, 5, 7, 8, 10, 12} -> 31
    [] mo \in {4, 6, 9, 11} -> 30
    [] mo = 2 -> IF IsLeap(y) THEN 29 ELSE 28

RECURSIVE DaysBefore(_, _)
DaysBefore(mo, y) == IF mo <= 1 THEN 0 ELSE DaysBefore(mo - 1, y) + DaysIn(mo - 1, y)

SecondsInto(y, mo, d, h, mi, sec) ==
  (DaysBefore(mo, y) + d - 1) * 86400 + h * 3600 + mi * 60 + sec

\* pd.to_datetime(f"{year}-{dt_str}", format="%Y-%m-%d %H:%M:%S"), line 93:
\* the seconds into the year, or "raises" for values no calendar has.
\* dt_str has the shape MM-DD HH:MM:SS (the timestamps modelled have
\* seconds 00; leap seconds are left out).
to_datetime(y, dt_str) ==
  LET mo == int(SubSeq(dt_str, 1, 2))
      d == int(SubSeq(dt_str, 4, 5))
      h == int(SubSeq(dt_str, 7, 8))
      mi == int(SubSeq(dt_str, 10, 11))
      sec == int(SubSeq(dt_str, 13, 14))
  IN IF /\ mo \in 1..12
        /\ d >= 1 /\ d <= DaysIn(mo, y)
        /\ h <= 23 /\ mi <= 59 /\ sec <= 59
     THEN [raises |-> FALSE, value |-> SecondsInto(y, mo, d, h, mi, sec)]
     ELSE [raises |-> TRUE, value |-> 0]

\* a variant of lines 88-96 without the try/except and the calendar check
parse_datetime_unchecked(current_year, dt_str) ==
  IF dt_str # None /\ Val(dt_str) # <<>>
  THEN LET d == Val(dt_str)
       IN Some(SecondsInto(current_year, 1, int(SubSeq(d, 4, 5)),
                           int(SubSeq(d, 7, 8)), int(SubSeq(d, 10, 11)),
                           int(SubSeq(d, 13, 14)))
               + (int(SubSeq(d, 1, 2)) - 1) * 31 * 86400)
  ELSE None

\* parse_datetime, lines 88-96: dt_str is the record's date-time, an option
parse_datetime(current_year, dt_str) ==
  IF dt_str # None /\ Val(dt_str) # <<>>
  THEN LET r == to_datetime(current_year, Val(dt_str))
       IN IF r.raises THEN None ELSE Some(r.value)
  ELSE None

\* a variant of lines 76-79 that selects a line of any target
RECURSIVE ParseSelected_any_target(_, _)
ParseSelected_any_target(lines, i) ==
  IF i > Len(lines) THEN <<>>
  ELSE IF find(lines[i], TARGET_OPEN) >= 0
       THEN <<parse_test_line(lines[i])>> \o ParseSelected_any_target(lines, i + 1)
       ELSE ParseSelected_any_target(lines, i + 1)

\* the loop of lines 76-79 from line i of the page on
RECURSIVE ParseSelected(_, _)
ParseSelected(lines, i) ==
  IF i > Len(lines) THEN <<>>
  ELSE IF endswith(lines[i], TARGET_NEXT)
       THEN <<parse_test_line(lines[i])>> \o ParseSelected(lines, i + 1)
       ELSE ParseSelected(lines, i + 1)

\* lines 82-98: the frame with its datetime column
Resolve(records, current_year) ==
  [i \in 1..Len(records) |->
     [date_time |-> records[i].date_time,
      status |-> records[i].status,
      link |-> records[i].link,
      test_command |-> records[i].test_command,
      duration |-> records[i].duration,
      exit_code |-> records[i].exit_code,
      target |-> records[i].target,
      datetime |-> parse_datetime(current_year, records[i].date_time)]]

\* the rows of a frame that satisfy Keep, in order
RECURSIVE Rows(_, _, _)
Rows(frame, Keep(_), i) ==
  IF i > Len(frame) THEN <<>>
  ELSE (IF Keep(frame[i]) THEN <<frame[i]>> ELSE <<>>) \o Rows(frame, Keep, i + 1)

\* line 102
CutoffTime(t) == t - WindowHours * 3600

\* a variant of line 103 with an upper bound at the time of the run
InWindow_bounded(row, t) ==
  /\ row.datetime # None
  /\ Val(row.datetime) >= t - WindowHours * 3600
  /\ Val(row.datetime) <= t

\* df["datetime"] >= cutoff_time for one row, line 103: a null datetime
\* compares False
InWindow(row, t) == row.datetime # None /\ Val(row.datetime) >= CutoffTime(t)

\* line 103
FilterRecent(frame, t) == LET Keep(row) == InWindow(row, t) IN Rows(frame, Keep, 1)

\* the values of a sequence without repetitions, in order of first appearance
\* (Series.unique)
RECURSIVE Unique(_, _)
Unique(seq, i) ==
  IF i > Len(seq) THEN <<>>
  ELSE (IF \E j \in 1..(i - 1) : seq[j] = seq[i] THEN <<>> ELSE <<seq[i]>>)
         \o Unique(seq, i + 1)

Column(frame, F(_)) == [i \in 1..Len(frame) |-> F(frame[i])]

\* the code points of the characters commands are made of
CodePoint(c) ==
  CASE c = " " -> 32 [] c = "/" -> 47 [] c = "X" -> 88 [] c = "a" -> 97
    [] c = "b" -> 98 [] c = "c" -> 99 [] OTHER -> 127

\* s < t for strings
RECURSIVE StrLess(_, _)
StrLess(s, t) ==
  IF t = <<>> THEN FALSE
  ELSE IF s = <<>> THEN TRUE
  ELSE IF s[1] = t[1] THEN StrLess(Tail(s), Tail(t))
  ELSE CodePoint(s[1]) < CodePoint(t[1])

\* a set of strings as the ascending sequence
RECURSIVE SortedKeys(_)
SortedKeys(K) ==
  IF K = {} THEN <<>>
  ELSE LET m == CHOOSE x \in K : \A y \in K \ {x} : StrLess(x, y)
       IN <<m>> \o SortedKeys(K \ {m})

\* the group keys of groupby("test_command"), line 112: the non-null
\* commands, ascending (sort=True, dropna=True)
GroupKeys(frame) ==
  SortedKeys({Val(frame[i].test_command) :
                i \in {j \in 1..Len(frame) : frame[j].test_command # None}})

\* "count" of the status column, line 115: the non-null values
CountStatus(group) ==
  LET Keep(row) == row.status # None IN Len(Rows(group, Keep, 1))

\* (x == word).sum(), lines 116-117
CountEqual(group, word) ==
  LET Keep(row) == row.status = Some(word) IN Len(Rows(group, Keep, 1))

\* lines 112-131: one row of the summary
SummaryRow(frame, cmd) ==
  LET InGroup(row) == row.test_command = Some(cmd)
      group == Rows(frame, InGroup, 1)
      ExitCode(row) == row.exit_code
      Duration(row) == row.duration
  IN [test_command |-> cmd,
      total_runs |-> CountStatus(group),
      failed_count |-> CountEqual(group, FAILED),
      flaked_count |-> CountEqual(group, FLAKED),
      exit_codes |-> Unique(Column(group, ExitCode), 1),
      durations |-> Column(group, Duration)]

\* lines 112-131: the summary before it is sorted, in group key order
Aggregate(frame) ==
  LET keys == GroupKeys(frame)
  IN [i \in 1..Len(keys) |-> SummaryRow(frame, keys[i])]

\* f is a one-to-one map of 1..n onto itself
IsPermutation(f, n) == \A i \in 1..n : \E j \in 1..n : f[j] = i

\* a variant of line 134 that leaves the groups in key order
SortOutcomes_unsorted(rows) == {rows}

\* sort_values("total_runs", ascending=False), line 134: the default
\* quicksort promises no order among equal keys, so every arrangement of
\* the rows that descends is a possible result
SortOutcomes(rows) ==
  LET n == Len(rows)
      P == {f \in [1..n -> 1..n] :
              /\ IsPermutation(f, n)
              /\ \A i \in 1..(n - 1) : rows[f[i]].total_runs >= rows[f[i + 1]].total_runs}
  IN {[i \in 1..n |-> rows[f[i]]] : f \in P}

\* df_recent["status"].value_counts(), line 150, as a set of (status, count)
StatusCounts(frame) ==
  {[status |-> st, count |-> CountEqual(frame, st)] :
     st \in {Val(frame[i].status) :
               i \in {j \in 1..Len(frame) : frame[j].status # None}}}

\* test_summary.head(10), line 139
head(rows, n) == SubSeq(rows, 1, IF Len(rows) < n THEN Len(rows) ELSE n)

(***************************************************************************)
(* The pages main is run on.                                               *)
(***************************************************************************)
TS_JAN01 == <<"0", "1", "-", "0", "1", " ", "1", "2", ":", "0", "0", ":", "0", "0", ":">>
TS_DEC31 == <<"1", "2", "-", "3", "1", " ", "2", "3", ":", "0", "0", ":", "0", "0", ":">>
TS_INVALID == <<"1", "3", "-", "4", "5", " ", "9", "9", ":", "0", "0", ":", "0", "0", ":">>
T_LINK == <<" ", "(">> \o T_A_OPEN \o <<"l", "o", "g">> \o CLOSE_MARKER_COLON
T_TARGET_OTHER == <<" ">> \o TARGET_OPEN \o <<"o", "t", "h", "e", "r", ")">>
T_CMD_A == <<" ", "a">>
T_CMD_B == <<" ", "b">>

StatusMarkup(word) == <<" ">> \o T_SPAN_OPEN \o word \o T_SPAN_CLOSE

StatusChoices == {<<>>, StatusMarkup(FAILED), StatusMarkup(FLAKED)}

\* a dashboard line: timestamp, status markup, link, command, exit code, target
MainLine(ts, st, cmd, target) == ts \o st \o T_LINK \o cmd \o T_CODE \o target

\* command a early in the year, with each status and without one;
\* command b early in the year and at its end; command a at the end of the
\* year, with and without duration; a line without timestamp and one with
\* a timestamp no calendar has; a line of another target; a selected line
\* none of the rules matches
MainLines ==
  {MainLine(TS_JAN01, st, T_CMD_A \o T_DURATION, T_TARGET_NEXT) : st \in StatusChoices}
  \cup {MainLine(ts, StatusMarkup(FAILED), T_CMD_B \o T_DURATION, T_TARGET_NEXT) :
          ts \in {TS_JAN01, TS_DEC31}}
  \cup {MainLine(ts, StatusMarkup(FAILED), T_CMD_A \o T_DURATION, T_TARGET_NEXT) :
          ts \in {<<>>, TS_INVALID}}
  \cup {MainLine(TS_DEC31, StatusMarkup(FLAKED), T_CMD_A \o T_DURATION, T_TARGET_NEXT),
        MainLine(TS_DEC31, StatusMarkup(FAILED), T_CMD_A, T_TARGET_NEXT),
        MainLine(TS_JAN01, StatusMarkup(FAILED), T_CMD_A \o T_DURATION, T_TARGET_OTHER),
        T_X \o T_TARGET_NEXT}

Pages == UNION {[1..k -> MainLines] : k \in 0..MaxLines}

Years == {2025}

\* the instants main is run at: Jan 2 10:00:00, Jan 3 12:00:00, Jan 5 00:00:00
NowChoices ==
  {[year |-> y, t |-> SecondsInto(y, 1, d[1], d[2], 0, 0)] :
     y \in Years, d \in {<<2, 10>>, <<3, 12>>, <<5, 0>>}}

Init ==
  /\ line = <<>>
  /\ rec = NoRecord
  /\ ppc = "idle"
  /\ MainIdle

\* lines 65-70: the page arrives
Fetch ==
  /\ pc = "start"
  /\ \E b \in Pages : body' = b
  /\ pc' = "fetched"
  /\ UNCHANGED <<fault, now, parsed_data, df, df_recent, test_summary, out, files>>
  /\ UNCHANGED pvars

\* lines 65-67: requests.get raises, and nothing catches it
FetchFails ==
  /\ pc = "start"
  /\ pc' = "fault"
  /\ fault' = "RequestException"
  /\ UNCHANGED <<body, now, parsed_data, df, df_recent, test_summary, out, files>>
  /\ UNCHANGED pvars

\* lines 73-79
SelectAndParse ==
  /\ pc = "fetched"
  /\ parsed_data' = ParseSelected(body, 1)
  /\ pc' = "parsed"
  /\ UNCHANGED <<fault, body, now, df, df_recent, test_summary, out, files>>
  /\ UNCHANGED pvars

\* lines 82-98 with records: the clock is read (lines 86 and 101 read it
\* within the same instant) and the datetime column is added
BuildFrame ==
  /\ pc = "parsed"
  /\ parsed_data # <<>>
  /\ \E n \in NowChoices :
       /\ now' = n
       /\ df' = Resolve(parsed_data, n.year)
  /\ pc' = "resolved"
  /\ UNCHANGED <<fault, body, parsed_data, df_recent, test_summary, out, files>>
  /\ UNCHANGED pvars

\* lines 82-98 without records: pd.DataFrame([]) has no column, and
\* df["date-time"] on line 98 raises KeyError
BuildFrameKeyError ==
  /\ pc = "parsed"
  /\ parsed_data = <<>>
  /\ pc' = "fault"
  /\ fault' = "KeyError"
  /\ UNCHANGED <<body, now, parsed_data, df, df_recent, test_summary, out, files>>
  /\ UNCHANGED pvars

\* lines 101-107
Filter ==
  /\ pc = "resolved"
  /\ df_recent' = FilterRecent(df, now.t)
  /\ out' = out \o <<[k |-> "recent", v |-> Len(df_recent')],
                     [k |-> "total", v |-> Len(df)]>>
  /\ pc' = "filtered"
  /\ UNCHANGED <<fault, body, now, parsed_data, df, test_summary, files>>
  /\ UNCHANGED pvars

\* lines 110-134
Summarize ==
  /\ pc = "filtered"
  /\ Len(df_recent) > 0
  /\ test_summary' \in SortOutcomes(Aggregate(df_recent))
  /\ pc' = "summarized"
  /\ UNCHANGED <<fault, body, now, parsed_data, df, df_recent, out, files>>
  /\ UNCHANGED pvars

\* lines 136-160
Report ==
  /\ pc = "summarized"
  /\ out' = out \o <<[k |-> "ranking", v |-> head(test_summary, HeadRows)],
                     [k |-> "status_counts", v |-> StatusCounts(df_recent)]>>
  /\ files' = {"failed_tests_48h.csv", "test_summary_48h.csv"}
  /\ pc' = "done"
  /\ UNCHANGED <<fault, body, now, parsed_data, df, df_recent, test_summary>>
  /\ UNCHANGED pvars

\* lines 161-162
NoFailures ==
  /\ pc = "filtered"
  /\ Len(df_recent) = 0
  /\ out' = Append(out, [k |-> "no_failures", v |-> 0])
  /\ pc' = "done"
  /\ UNCHANGED <<fault, body, now, parsed_data, df, df_recent, test_summary, files>>
  /\ UNCHANGED pvars

Next ==
  \/ Fetch
  \/ FetchFails
  \/ SelectAndParse
  \/ BuildFrame
  \/ BuildFrameKeyError
  \/ Filter
  \/ Summarize
  \/ Report
  \/ NoFailures

Spec == Init /\ [][Next]_vars

(***************************************************************************)
(* The properties of parse_test_line, checked under SpecParse.             *)
(***************************************************************************)
\* the text contents of the spans of a line
SpanTexts(l) ==
  LET nodes == Descendants(BeautifulSoup(l))
  IN {Text(nodes[i]) : i \in {j \in 1..Len(nodes) :
                                 nodes[j].k = "tag" /\ nodes[j].name = SPAN}}

\* C1: the status of a parsed line is exactly FAILED, exactly FLAKED or
\* null: it is that word when the line has a span whose text is exactly the
\* word, and null for every other line.
C1_StatusExact ==
  ppc = "return" =>
    /\ rec.status \in {None, Some(FAILED), Some(FLAKED)}
    /\ IF SpanTexts(line) \cap {FAILED, FLAKED} # {}
       THEN rec.status # None /\ Val(rec.status) \in SpanTexts(line)
       ELSE rec.status = None

\* C2: a line without the marker "</a></span>):" has an empty remainder,
\* hence null test_command, duration, exit_code and target.
C2_NoMarkerAllNull ==
  (ppc = "return" /\ find(line, CLOSE_MARKER_COLON) < 0) =>
    /\ rec.test_command = None
    /\ rec.duration = None
    /\ rec.exit_code = None
    /\ rec.target = None

\* s[i..j] is a token "(<digits>s)"
IsDurationToken(s, i, j) ==
  /\ j - i >= 3
  /\ s[i] = "("
  /\ s[j] = ")"
  /\ s[j - 1] = "s"
  /\ \A k \in (i + 1)..(j - 2) : IsDigit(s[k])

\* the 1-based starts of the duration tokens of s
DurationTokenStarts(s) ==
  {i \in 1..Len(s) : \E j \in i..Len(s) : IsDurationToken(s, i, j)}

\* C3: duration is null if and only if test_command is null; without a
\* "(<digits>s)" token in the remainder both are null even if command text
\* is there, and with one both are set, test_command being the trimmed
\* remainder before the first token.
C3_DurationIffCommand ==
  ppc = "return" =>
    LET rest == RestOfLine(line)
        starts == DurationTokenStarts(rest)
    IN /\ rec.duration = None <=> rec.test_command = None
       /\ starts = {} => rec.duration = None /\ rec.test_command = None
       /\ starts # {} =>
            /\ rec.duration # None
            /\ rec.test_command = Some(strip(SubSeq(rest, 1, Min(starts) - 1)))

\* the remainder holds command text and no duration token, and the command
\* is null
C3_Witness ==
  /\ ppc = "return"
  /\ find(RestOfLine(line), T_X) >= 0
  /\ DurationTokenStarts(RestOfLine(line)) = {}
  /\ rec.test_command = None
  /\ rec.duration = None
  /\ rec.exit_code # None

(***************************************************************************)
(* The properties of main, checked under Spec.                             *)
(***************************************************************************)
Filtered == pc \in {"filtered", "summarized", "done"}

\* C4: when the filtered set is empty (also when no line was selected at
\* all), main ends without an unhandled fault, prints the two counts and the
\* no-failures message, builds no summary and writes no file.
C4_EmptyRecentEndsQuietly ==
  /\ fault # "KeyError"
  /\ (pc = "done" /\ df_recent = <<>>) =>
       /\ files = {}
       /\ test_summary = <<>>
       /\ Len(out) = 3
       /\ out[1] = [k |-> "recent", v |-> 0]
       /\ out[2] = [k |-> "total", v |-> Len(parsed_data)]
       /\ out[3].k = "no_failures"

\* the rows of the filtered set whose command is cmd
GroupOf(cmd) == {j \in 1..Len(df_recent) : df_recent[j].test_command = Some(cmd)}

\* C5: total_runs of a summary row is the number of filtered records with
\* the row's command, whatever their status; records without command are in
\* no row and are counted in the printed filtered total.
C5_TotalRunsCountsGroup ==
  pc \in {"summarized", "done"} =>
    /\ \A i \in 1..Len(test_summary) :
         test_summary[i].total_runs = Cardinality(GroupOf(test_summary[i].test_command))
    /\ out[1] = [k |-> "recent", v |-> Len(df_recent)]

\* C6: failed_count + flaked_count <= total_runs in every summary row, with
\* equality only when every record of the group is FAILED or FLAKED.
C6_FailedPlusFlakedBelowTotal ==
  pc \in {"summarized", "done"} =>
    \A i \in 1..Len(test_summary) :
      LET row == test_summary[i]
      IN /\ row.failed_count + row.flaked_count <= row.total_runs
         /\ row.failed_count + row.flaked_count = row.total_runs =>
              \A j \in GroupOf(row.test_command) :
                df_recent[j].status \in {Some(FAILED), Some(FLAKED)}

\* the place of the first filtered record with command cmd
FirstAppearance(cmd) == Min(GroupOf(cmd))

\* C7 as claimed: the summary descends by total_runs, and rows with equal
\* total_runs come in the order of first appearance of their commands.
C7_TiesByFirstAppearance ==
  pc \in {"summarized", "done"} =>
    \A i, j \in 1..Len(test_summary) :
      i < j =>
        /\ test_summary[i].total_runs >= test_summary[j].total_runs
        /\ test_summary[i].total_runs = test_summary[j].total_runs =>
             FirstAppearance(test_summary[i].test_command)
               < FirstAppearance(test_summary[j].test_command)

\* C7 as amended: the summary has one row for each command of the filtered
\* set and descends by total_runs (nothing is promised about equal rows).
C7_DescendingTotalRuns ==
  pc \in {"summarized", "done"} /\ df_recent # <<>> =>
    /\ \A i, j \in 1..Len(test_summary) :
         i < j => test_summary[i].total_runs >= test_summary[j].total_runs
    /\ \A i, j \in 1..Len(test_summary) :
         i # j => test_summary[i].test_command # test_summary[j].test_command
    /\ {test_summary[i].test_command : i \in 1..Len(test_summary)}
         = {Val(df_recent[j].test_command) :
              j \in {m \in 1..Len(df_recent) : df_recent[m].test_command # None}}

\* a summary of two rows with different totals has been reported
C7_Witness ==
  /\ pc = "done"
  /\ Len(test_summary) = 2
  /\ test_summary[1].total_runs = 2
  /\ test_summary[2].total_runs = 1
  /\ out[3] = [k |-> "ranking", v |-> test_summary]

\* a timestamp of the shape MM-DD HH:MM:SS with a month, day or hour that no
\* calendar has
BadCalendar(ts) ==
  \/ int(SubSeq(ts, 1, 2)) > 12
  \/ int(SubSeq(ts, 4, 5)) > 31
  \/ int(SubSeq(ts, 7, 8)) > 23

\* C8: a timestamp with invalid calendar values resolves to a null datetime,
\* the run goes on, and a record with null datetime is not in the filtered
\* set but is counted in the total.
C8_BadTimestampIsLocal ==
  /\ \A i \in 1..Len(df) :
       /\ (df[i].date_time # None /\ BadCalendar(Val(df[i].date_time)))
            => df[i].datetime = None
       /\ df[i].date_time = None => df[i].datetime = None
  /\ pc \in {"resolved", "filtered", "summarized", "done"} => Len(df) = Len(parsed_data)
  /\ Filtered =>
       /\ \A j \in 1..Len(df_recent) : df_recent[j].datetime # None
       /\ out[2] = [k |-> "total", v |-> Len(df)]
       /\ Len(df) - Len(df_recent)
            >= Cardinality({i \in 1..Len(df) : df[i].datetime = None})

\* a run with an invalid timestamp has ended with another record reported
C8_Witness ==
  /\ pc = "done"
  /\ \E i \in 1..Len(df) : df[i].date_time = Some(SubSeq(TS_INVALID, 1, 14))
  /\ \E i \in 1..Len(df) : df[i].date_time = None
  /\ Len(df_recent) = 1
  /\ Len(df) = 3
  /\ files # {}

\* the places of the page's lines that end in "(target: next)"
SelectedPlaces == {i \in 1..Len(body) : endswith(body[i], TARGET_NEXT)}

\* the place of the k-th selected line
KthSelected(k) ==
  CHOOSE i \in SelectedPlaces : Cardinality({j \in SelectedPlaces : j <= i}) = k

====
